---- MODULE Spec2Model ----
(***************************************************************************)
(* stream-bit dashboard: the chart window, its sampling and labelling, the *)
(* price-change gate of the live stream, range changes with their          *)
(* asynchronous reloads, and the reconnecting stream client.               *)
(*                                                                         *)
(* Units.  Instants are whole minutes since an arbitrary local midnight    *)
(* (day = t \div 1440, minute of the day = t % 1440); the delays of the    *)
(* reconnecting client are milliseconds.  Prices are whole centavos        *)
(* (0.01 BRL); the program holds them as IEEE-754 doubles, and the price   *)
(* gate is computed with the rounding of the doubles.                      *)
(***************************************************************************)
EXTENDS Integers, Sequences, FiniteSets, TLC

(***************************************************************************)
(* Program constants                                                       *)
(***************************************************************************)
maxPoints == 150
sampleMaxPoints == 100
priceThreshold == 1
totalLabels == 6
threshold == 30
DefaultTimeRange == 24
maxRetries == 5
initialRetryDelay == 1000
maxRetryDelay == 30000
BasePrice == 61500000

(***************************************************************************)
(* Bounds of the exploration                                               *)
(***************************************************************************)
Now0 == 15020
SoakMsgs == 152
RaceMsgs == 1
RefreshMsgs == 2
OddMsgs == 4
MaxReloads == 2
MaxAnomalies == 2
MaxStops == 2
StaleGap == 91
MaxOpens == 1
MaxManual == 2
MaxStreamMsgs == 1
MaxSampleLen == 40
MaxSampleMax == 6
MaxLabelLen == 12

Ranges == {6, 24, 72}

(***************************************************************************)
(* Small helpers                                                           *)
(***************************************************************************)
Abs(x) == IF x < 0 THEN -x ELSE x

Min(a, b) == IF a < b THEN a ELSE b

CeilDiv(a, b) == (a + b - 1) \div b

(***************************************************************************)
(* JavaScript values of a price field: a number, or absent (undefined),    *)
(* which parseFloat turns into NaN.  null is the constructor's lastPrice.  *)
(***************************************************************************)
NullPrice == [kind |-> "null"]

NaNPrice == [kind |-> "NaN"]

Undefined == [kind |-> "undefined"]

Num(p) == [kind |-> "num", val |-> p]

IsNum(v) == v.kind = "num"

\* parseFloat of a JSON field that is a number or absent
parseFloat(v) == IF IsNum(v) THEN v ELSE NaNPrice

\* JavaScript truthiness of a field that is a number, NaN or undefined
Truthy(v) == IsNum(v) /\ v.val # 0

NoLabel == <<>>

(***************************************************************************)
(* smartSampleData: every step-th element, step = ceil(length/maxPoints)   *)
(***************************************************************************)
\* the filter keeping the last element of every group of step, not the first
FilterEvery_groupEnd(data, step) ==
    [i \in 1..(Len(data) \div step) |-> data[i * step]] \o <<>>

\* data.filter((_, index) => index % step === 0), indices counted from 0
FilterEvery(data, step) ==
    [i \in 1..CeilDiv(Len(data), step) |-> data[(i - 1) * step + 1]] \o <<>>

\* smartSampleData with the step rounded down instead of up
smartSampleData_floor(data, m) ==
    IF Len(data) <= m THEN data
    ELSE FilterEvery(data, IF Len(data) \div m = 0 THEN 1 ELSE Len(data) \div m)

smartSampleData(data, m) ==
    IF Len(data) <= m THEN data
    ELSE FilterEvery(data, CeilDiv(Len(data), m))

(***************************************************************************)
(* Label text.  toLocaleTimeString({hour, minute}) keeps the minute of the *)
(* day and drops the date; the date+time format keeps both; the 3-day      *)
(* format of createSmartLabelsOnly qualifies today and yesterday.          *)
(***************************************************************************)
FormatTime(t) == <<"time", t % 1440>>

FormatDateTime(t) == <<"date", t \div 1440, t % 1440>>

FormatRelative(t, today) ==
    IF t \div 1440 = today \div 1440 THEN <<"Hoje", t % 1440>>
    ELSE IF t \div 1440 = (today - 1440) \div 1440 THEN <<"Ontem", t % 1440>>
    ELSE FormatDateTime(t)

labelFormat(t, hours, today) ==
    IF hours <= 24 THEN FormatTime(t) ELSE FormatRelative(t, today)

\* the start without setting minutes, seconds and milliseconds to 0
startTime_untruncated(hours, now) ==
    now - 60 * (IF hours <= 6 THEN 6 ELSE IF hours <= 24 THEN 24 ELSE hours)

\* startTime.setHours(now.getHours() - H, 0, 0, 0): the hour of now, H hours back
startTime(hours, now) ==
    (now \div 60) * 60
        - 60 * (IF hours <= 6 THEN 6 ELSE IF hours <= 24 THEN 24 ELSE hours)

intervalMillis(hours) ==
    IF hours <= 6 THEN 60 ELSE IF hours <= 24 THEN 4 * 60 ELSE 12 * 60

idealTimes(hours, now) ==
    [i \in 1..totalLabels |->
        startTime(hours, now) + (i - 1) * intervalMillis(hours)] \o <<>>

\* the forEach over idealTimes without the test of usedLabels
closestLabelIndex_reuse(t, ideal, used) ==
    CHOOSE i \in 1..totalLabels :
       \A j \in 1..totalLabels :
          \/ Abs(t - ideal[i]) < Abs(t - ideal[j])
          \/ (Abs(t - ideal[i]) = Abs(t - ideal[j]) /\ i <= j)

\* the forEach over idealTimes: the unused index of least distance, the first
\* one on ties (distance < closestDistance); 0 when every label is used
closestLabelIndex(t, ideal, used) ==
    LET free == {i \in 1..totalLabels : i \notin used}
    IN IF free = {} THEN 0
       ELSE CHOOSE i \in free :
              \A j \in free :
                 \/ Abs(t - ideal[i]) < Abs(t - ideal[j])
                 \/ (Abs(t - ideal[i]) = Abs(t - ideal[j]) /\ i <= j)

\* the test with <= in place of <
labelWithinThreshold_inclusive(distance) == distance <= threshold

labelWithinThreshold(distance) == distance < threshold

\* data.map whose callback never sets usedLabels[closestLabelIndex]
RECURSIVE AssignLabels_forgetUsed(_, _, _, _, _, _, _)
AssignLabels_forgetUsed(data, lo, hi, used, ideal, hours, now) ==
    IF lo > hi THEN [labels |-> <<>>, buckets |-> <<>>, used |-> used]
    ELSE IF lo = hi
    THEN LET t == data[lo].timestamp
             k == closestLabelIndex(t, ideal, used)
             hit == k # 0 /\ labelWithinThreshold(Abs(t - ideal[k]))
         IN [labels |-> <<IF hit THEN labelFormat(ideal[k], hours, now) ELSE NoLabel>>,
             buckets |-> <<IF hit THEN k ELSE 0>>,
             used |-> used]
    ELSE LET mid == (lo + hi) \div 2
             left == AssignLabels_forgetUsed(data, lo, mid, used, ideal, hours, now)
             right == AssignLabels_forgetUsed(data, mid + 1, hi, left.used, ideal, hours, now)
         IN [labels |-> left.labels \o right.labels,
             buckets |-> left.buckets \o right.buckets,
             used |-> right.used]

\* data.map over the items lo..hi, entered with the labels `used` taken: the
\* labels of these items and the labels taken afterwards.  The items are
\* visited from left to right; the range is halved only to bound the depth
\* of the evaluation.
RECURSIVE AssignLabels(_, _, _, _, _, _, _)
AssignLabels(data, lo, hi, used, ideal, hours, now) ==
    IF lo > hi THEN [labels |-> <<>>, buckets |-> <<>>, used |-> used]
    ELSE IF lo = hi
    THEN LET t == data[lo].timestamp
             k == closestLabelIndex(t, ideal, used)
             hit == k # 0 /\ labelWithinThreshold(Abs(t - ideal[k]))
         IN [labels |-> <<IF hit THEN labelFormat(ideal[k], hours, now) ELSE NoLabel>>,
             buckets |-> <<IF hit THEN k ELSE 0>>,
             used |-> IF hit THEN used \cup {k} ELSE used]
    ELSE LET mid == (lo + hi) \div 2
             left == AssignLabels(data, lo, mid, used, ideal, hours, now)
             right == AssignLabels(data, mid + 1, hi, left.used, ideal, hours, now)
         IN [labels |-> left.labels \o right.labels,
             buckets |-> left.buckets \o right.buckets,
             used |-> right.used]

createSmartLabelsOnly(data, hours, now) ==
    AssignLabels(data, 1, Len(data), {}, idealTimes(hours, now), hours, now).labels

(***************************************************************************)
(* shouldShowLabelForNewPoint and the label of a streamed point            *)
(***************************************************************************)
labelEvery(hours) == IF hours <= 6 THEN 10 ELSE IF hours <= 24 THEN 15 ELSE 20

shouldShowLabelForNewPoint(totalPoints, hours) ==
    totalPoints % labelEvery(hours) = 0

newPointLabel(t, totalPoints, hours) ==
    IF shouldShowLabelForNewPoint(totalPoints, hours)
    THEN (IF hours <= 24 THEN FormatTime(t) ELSE FormatDateTime(t))
    ELSE NoLabel

(***************************************************************************)
(* Array.prototype.sort by timestamp.  The sort is stable (elements of     *)
(* equal timestamp keep their order): a merge sort that keeps the left run *)
(* first on ties.                                                          *)
(***************************************************************************)
\* how many elements of b come before x when x stands to their left
countBefore(b, x) == Cardinality({j \in 1..Len(b) : b[j].timestamp < x.timestamp})

\* merge of two sorted runs, a to the left of b: runs that do not overlap
\* are joined (a first on ties); otherwise the middle element of a goes
\* after the elements of b that are smaller, and before the others
RECURSIVE MergeByTimestamp(_, _)
MergeByTimestamp(a, b) ==
    IF a = <<>> THEN b
    ELSE IF b = <<>> THEN a
    ELSE IF a[Len(a)].timestamp <= b[1].timestamp THEN a \o b
    ELSE IF b[Len(b)].timestamp < a[1].timestamp THEN b \o a
    ELSE LET m == (Len(a) + 1) \div 2
             c == countBefore(b, a[m])
         IN MergeByTimestamp(SubSeq(a, 1, m - 1), SubSeq(b, 1, c))
              \o <<a[m]>>
              \o MergeByTimestamp(SubSeq(a, m + 1, Len(a)), SubSeq(b, c + 1, Len(b)))

RECURSIVE SortByTimestamp(_)
SortByTimestamp(data) ==
    IF Len(data) <= 1 THEN data
    ELSE MergeByTimestamp(SortByTimestamp(SubSeq(data, 1, Len(data) \div 2)),
                          SortByTimestamp(SubSeq(data, Len(data) \div 2 + 1, Len(data))))

(***************************************************************************)
(* The server.  The price at instant t, and the series the chart-data      *)
(* endpoint returns for a range: one point every HistStep minutes over the *)
(* last `hours` hours, newest first.                                       *)
(***************************************************************************)
PriceAt(t) == BasePrice + 2 * (t % 7)

HistStep(hours) == IF hours <= 6 THEN 5 ELSE IF hours <= 24 THEN 15 ELSE 30

HistCount(hours) == (hours * 60) \div HistStep(hours)

Hist(hours, now) ==
    [j \in 1..HistCount(hours) |->
        [timestamp |-> now - (j - 1) * HistStep(hours),
         price_brl |-> PriceAt(now - (j - 1) * HistStep(hours))]] \o <<>>

(***************************************************************************)
(* State                                                                   *)
(***************************************************************************)
VARIABLES
    pc,                \* where init() is: "loading" while it awaits the first load,
                       \* "stats" while it awaits loadCacheStats(), then "running"
    currentTimeRange,  \* this.currentTimeRange
    lastPrice,         \* this.lastPrice
    chartData,         \* this.chart.data.datasets[0].data
    chartLabels,       \* this.chart.data.labels
    realTimestamps,    \* this.realTimestamps (undefined reads as empty)
    eventSource,       \* this.eventSource: "null", or the readyState of the
                       \* object: "connecting", "open", "closed"
    connectionStatus,  \* text of #connection-status
    inflight,          \* chart-data requests awaiting their response; superseded
                       \* records that a range was selected after the request
    clock,             \* minutes elapsed since the page was loaded
    loadedFor,         \* history: hours of the request whose response fills the chart
    appended,          \* history: points pushed by addNewPointToChart, in call order
    last,              \* history: the event handled by the last step
    budget             \* what the environment may still do: [msgs, reloads, anomalies, stops]

dashVars == <<pc, currentTimeRange, lastPrice, chartData, chartLabels,
              realTimestamps, eventSource, connectionStatus, inflight, clock,
              loadedFor, appended, last, budget>>

(***************************************************************************)
(* State of the reconnecting client (the dashboard with retryCount)        *)
(***************************************************************************)
VARIABLES
    stream,        \* readyState of this.eventSource: "connecting", "open", "closed"
    isConnected,   \* this.isConnected
    retryCount,    \* this.retryCount
    retryDelay,    \* this.retryDelay, in ms
    timers,        \* delays of the setTimeout(startDataStream) calls not yet fired
    polling,       \* number of setInterval(loadLatestData) timers running
    destroyed,     \* destroy() has run
    streak,        \* history: failures and reconnect delays since the last open
    opened,        \* history: number of open events so far
    manual,        \* history: number of focus, online and offline events so far
    rlast,         \* history: the event handled by the last step
    priceChart,    \* this.priceChart: the labels and data of its data, and
                   \* attached, whether it still holds its canvas
    latest,        \* loadInitialData() calls awaiting their loadLatestData()
    hourly,        \* requests of loadHourlyData awaiting their response
    issued,        \* history: number of loadHourlyData requests so far
    delivered,     \* history: number of stream messages handled so far
    live           \* history: EventSources created and not closed

loadVars == <<priceChart, latest, hourly, issued, delivered>>

retryVars == <<stream, isConnected, retryCount, retryDelay, timers, polling,
               destroyed, streak, opened, manual, rlast, loadVars, live>>

(***************************************************************************)
(* State of the sampling harness                                           *)
(***************************************************************************)
VARIABLES
    sampleIn,      \* the series given to smartSampleData
    sampleMax,     \* its maxPoints
    sampleOut,     \* what it returned
    sampleDone     \* whether it has been called

sampleVars == <<sampleIn, sampleMax, sampleOut, sampleDone>>

(***************************************************************************)
(* State of the labelling harness                                          *)
(***************************************************************************)
VARIABLES
    labelIn,       \* the series given to createSmartLabelsOnly
    labelHours,    \* its hours
    labelOut,      \* what it returned, with the ideal time each point claimed
    labelDone      \* whether it has been called

labelVars == <<labelIn, labelHours, labelOut, labelDone>>

harnessVars == <<sampleVars, labelVars>>

(***************************************************************************)
(* State of the page                                                       *)
(***************************************************************************)
VARIABLE
    raised         \* the call or handler run by the last step threw

vars == <<dashVars, retryVars, harnessVars, raised>>

DashIdle ==
    /\ pc = "off"
    /\ currentTimeRange = DefaultTimeRange
    /\ lastPrice = NullPrice
    /\ chartData = <<>>
    /\ chartLabels = <<>>
    /\ realTimestamps = <<>>
    /\ eventSource = "null"
    /\ connectionStatus = "Connecting"
    /\ inflight = {}
    /\ clock = 0
    /\ loadedFor = 0
    /\ appended = <<>>
    /\ last = [op |-> "none", price |-> Undefined, timestamp |-> Undefined,
               gate |-> FALSE, pushed |-> FALSE, renders |-> 0,
               superseded |-> FALSE]
    /\ budget = [msgs |-> 0, reloads |-> 0, anomalies |-> 0, stops |-> 0]
    /\ raised = FALSE

RetryIdle ==
    /\ stream = "closed"
    /\ isConnected = FALSE
    /\ retryCount = 0
    /\ retryDelay = initialRetryDelay
    /\ timers = <<>>
    /\ polling = 0
    /\ destroyed = TRUE
    /\ streak = [failures |-> 0, delays |-> <<>>]
    /\ opened = 0
    /\ manual = 0
    /\ rlast = "none"
    /\ priceChart = [labels |-> <<>>, data |-> <<>>, attached |-> FALSE]
    /\ latest = 0
    /\ hourly = {}
    /\ issued = 0
    /\ delivered = 0
    /\ live = 0

SampleIdle ==
    /\ sampleIn = <<>>
    /\ sampleMax = 1
    /\ sampleOut = <<>>
    /\ sampleDone = TRUE

LabelIdle ==
    /\ labelIn = <<>>
    /\ labelHours = DefaultTimeRange
    /\ labelOut = [labels |-> <<>>, buckets |-> <<>>]
    /\ labelDone = TRUE

Now == Now0 + clock

NoEvent == [op |-> "none", price |-> Undefined, timestamp |-> Undefined,
            gate |-> FALSE, pushed |-> FALSE, renders |-> 0, superseded |-> FALSE]

\* a long quiet stream; reloads racing a short stream; one reload after a
\* few streamed points; a short stream with repeated, late and malformed
\* deliveries; a short stream and one odd delivery with calls of stopSSE
Budgets ==
    {[msgs |-> SoakMsgs, reloads |-> 0, anomalies |-> 0, stops |-> 0],
     [msgs |-> RaceMsgs, reloads |-> MaxReloads, anomalies |-> 0, stops |-> 0],
     [msgs |-> RefreshMsgs, reloads |-> 1, anomalies |-> 0, stops |-> 0],
     [msgs |-> OddMsgs, reloads |-> 0, anomalies |-> MaxAnomalies, stops |-> 0],
     [msgs |-> RaceMsgs, reloads |-> 0, anomalies |-> 1, stops |-> MaxStops]}

\* constructor, initChart, and init() up to its first await: loadInitialData
\* has issued the chart-data request for 24 hours
Init ==
    /\ pc = "loading"
    /\ currentTimeRange = DefaultTimeRange
    /\ lastPrice = NullPrice
    /\ chartData = <<>>
    /\ chartLabels = <<>>
    /\ realTimestamps = <<>>
    /\ eventSource = "null"
    /\ connectionStatus = "Connecting"
    /\ inflight = {[id |-> 0, hours |-> 24, from |-> "init", superseded |-> FALSE]}
    /\ clock = 0
    /\ loadedFor = 0
    /\ appended = <<>>
    /\ last = NoEvent
    /\ budget \in Budgets
    /\ raised = FALSE
    /\ RetryIdle
    /\ SampleIdle
    /\ LabelIdle

(***************************************************************************)
(* updateChart(response): sort, sample to 100 points, label, replace the   *)
(* three arrays, redraw                                                    *)
(***************************************************************************)
sampledData(rawData) == smartSampleData(SortByTimestamp(rawData), sampleMaxPoints)

Pluck(data, field) == [i \in 1..Len(data) |-> data[i][field]] \o <<>>

updateChart(rawData, hours) ==
    \E sampled \in {sampledData(rawData)} :
       /\ chartData' = Pluck(sampled, "price_brl")
       /\ chartLabels' = createSmartLabelsOnly(sampled, currentTimeRange, Now)
       /\ realTimestamps' = Pluck(sampled, "timestamp")
       /\ loadedFor' = hours
       /\ appended' = <<>>

(***************************************************************************)
(* addNewPointToChart(newData): push onto the three arrays, then drop the  *)
(* oldest entry of each when the data array is longer than maxPoints       *)
(***************************************************************************)
addNewPointGuard(newData) == Truthy(newData.price_brl) /\ IsNum(newData.timestamp)

\* the eviction test one entry late
overCapacity_late(length) == length > maxPoints + 1

overCapacity(length) == length > maxPoints

\* eviction at the newest end instead of the oldest
shiftWhen_pop(over, arr) == IF over THEN SubSeq(arr, 1, Len(arr) - 1) ELSE arr

shiftWhen(over, arr) == IF over THEN Tail(arr) ELSE arr

\* addNewPointToChart that never shifts the labels
addNewPointToChart_keepLabels(newData) ==
    LET newPrice == newData.price_brl.val
        newTimestamp == newData.timestamp.val
        newLabel == newPointLabel(newTimestamp, Len(chartLabels), currentTimeRange)
        over == overCapacity(Len(chartData) + 1)
    IN /\ chartData' = shiftWhen(over, Append(chartData, newPrice))
       /\ realTimestamps' = shiftWhen(over, Append(realTimestamps, newTimestamp))
       /\ chartLabels' = Append(chartLabels, newLabel)
       /\ appended' = Append(appended, <<newTimestamp, newPrice>>)

addNewPointToChart(newData) ==
    LET newPrice == newData.price_brl.val
        newTimestamp == newData.timestamp.val
        newLabel == newPointLabel(newTimestamp, Len(chartLabels), currentTimeRange)
        over == overCapacity(Len(chartData) + 1)
    IN /\ chartData' = shiftWhen(over, Append(chartData, newPrice))
       /\ realTimestamps' = shiftWhen(over, Append(realTimestamps, newTimestamp))
       /\ chartLabels' = shiftWhen(over, Append(chartLabels, newLabel))
       /\ appended' = Append(appended, <<newTimestamp, newPrice>>)

(***************************************************************************)
(* handleSSEMessage, case 'price_update': the chart changes only when the  *)
(* price moved by more than 0.01 since the last price that passed          *)
(***************************************************************************)
\* Prices are amounts of whole centavos; the code holds each as the double
\* nearest to the decimal amount and subtracts and compares in doubles.
\* The binary expansion of c/100 is that of c \div 100 followed by one digit
\* per doubling of the remainder modulo 100; a double keeps 53 significant
\* digits of it.
RECURSIVE BitLength(_)
BitLength(n) == IF n = 0 THEN 0 ELSE 1 + BitLength(n \div 2)

\* the expansion continued until 53 significant digits are kept: p digits
\* after the binary point, the remainder r left over, the last digit kept
RECURSIVE KeepBits(_, _, _, _)
KeepBits(r, kept, p, lastBit) ==
    IF kept = 53 THEN [p |-> p, r |-> r, lastBit |-> lastBit]
    ELSE LET bit == IF 2 * r >= 100 THEN 1 ELSE 0
         IN KeepBits((2 * r) % 100,
                     IF kept = 0 /\ bit = 0 THEN 0 ELSE kept + 1,
                     p + 1, bit)

\* the double of c centavos is c/100 + s * 2^(-p) / 100: rounded to the
\* nearest, a tie to the even digit
doubleError(c) ==
    IF c = 0 THEN [p |-> 59, s |-> 0]
    ELSE LET b == KeepBits(c % 100, BitLength(c \div 100), 0, (c \div 100) % 2)
         IN [p |-> b.p,
             s |-> IF b.r < 50 THEN 0 - b.r
                   ELSE IF b.r > 50 THEN 100 - b.r
                   ELSE IF b.lastBit = 1 THEN 50 ELSE 0 - 50]

\* Math.abs(a - b) > 0.01 on the doubles of a and b centavos.  Amounts one
\* centavo apart are within a factor of two of each other, so their
\* difference is computed exactly, and it exceeds the double of 0.01 exactly
\* when the rounding errors of the two amounts differ by more than the
\* rounding error of 0.01; further apart or equal, the roundings do not
\* matter.
exceedsThreshold(a, b) ==
    LET d == Abs(a - b)
        hi == IF Abs(a) > Abs(b) THEN Abs(a) ELSE Abs(b)
        lo == Min(Abs(a), Abs(b))
        eh == doubleError(hi)
        el == doubleError(lo)
        et == doubleError(priceThreshold)
        kh == et.p - eh.p
        kl == et.p - el.p
        k0 == Min(kh, kl)
        t == eh.s * 2^(kh - k0) - el.s * 2^(kl - k0)
    IN IF d > priceThreshold THEN TRUE
       ELSE IF d < priceThreshold THEN FALSE
       ELSE IF k0 >= 8 THEN t > 0 \/ (t = 0 /\ 0 > et.s)
       ELSE t * 2^k0 > et.s

priceChanged(newPrice, lastP) ==
    \/ lastP.kind = "null"
    \/ /\ IsNum(newPrice)
       /\ IsNum(lastP)
       /\ exceedsThreshold(newPrice.val, lastP.val)

\* the handler appending whatever the gate says
handlePriceUpdate_always(data) ==
    LET newPrice == parseFloat(data.price_brl)
        gate == priceChanged(newPrice, lastPrice)
        push == addNewPointGuard(data)
    IN /\ IF push THEN addNewPointToChart(data)
          ELSE UNCHANGED <<chartData, realTimestamps, chartLabels, appended>>
       /\ lastPrice' = IF gate THEN newPrice ELSE lastPrice
       /\ last' = [op |-> "price_update", price |-> data.price_brl,
                   timestamp |-> data.timestamp, gate |-> gate, pushed |-> push,
                   renders |-> IF push THEN 1 ELSE 0, superseded |-> FALSE]
       /\ UNCHANGED <<eventSource, connectionStatus>>

handlePriceUpdate(data) ==
    LET newPrice == parseFloat(data.price_brl)
        gate == priceChanged(newPrice, lastPrice)
        push == gate /\ addNewPointGuard(data)
    IN /\ IF push THEN addNewPointToChart(data)
          ELSE UNCHANGED <<chartData, realTimestamps, chartLabels, appended>>
       /\ lastPrice' = IF gate THEN newPrice ELSE lastPrice
       /\ last' = [op |-> "price_update", price |-> data.price_brl,
                   timestamp |-> data.timestamp, gate |-> gate, pushed |-> push,
                   renders |-> IF push THEN 1 ELSE 0, superseded |-> FALSE]
       /\ UNCHANGED <<eventSource, connectionStatus>>

\* stopSSE() without its test of this.eventSource: close() is called on
\* null, which throws before the field and the status text are written
stopSSE_unguarded ==
    IF eventSource # "null"
    THEN eventSource' = "null" /\ connectionStatus' = "Disconnected"
         /\ raised' = FALSE
    ELSE raised' = TRUE /\ UNCHANGED <<eventSource, connectionStatus>>

\* stopSSE(): with an EventSource in the field, close it, null the field
\* and write the status text; with null in the field, nothing
stopSSE ==
    IF eventSource # "null"
    THEN eventSource' = "null" /\ connectionStatus' = "Disconnected"
         /\ raised' = FALSE
    ELSE raised' = FALSE /\ UNCHANGED <<eventSource, connectionStatus>>

handleOther(type) ==
    /\ IF type = "stream_end" THEN stopSSE
       ELSE raised' = FALSE /\ UNCHANGED <<eventSource, connectionStatus>>
    /\ last' = [NoEvent EXCEPT !.op = type]
    /\ UNCHANGED <<chartData, realTimestamps, chartLabels, appended, lastPrice>>

(***************************************************************************)
(* What the stream may deliver.  A fresh price update carries the current  *)
(* instant and the server's price at it; the other deliveries are drawn    *)
(* against the budget of anomalies.                                        *)
(***************************************************************************)
FreshUpdate(t) == [price_brl |-> Num(PriceAt(t)), timestamp |-> Num(t)]

OlderTimestamps ==
    LET n == Len(realTimestamps)
    IN IF n = 0 THEN {}
       ELSE {realTimestamps[n], realTimestamps[n] - StaleGap}
              \cup (IF n > 1 THEN {realTimestamps[n - 1]} ELSE {})

OddUpdates(t) ==
    {[price_brl |-> Undefined, timestamp |-> Num(t)],
     [price_brl |-> Num(PriceAt(t)), timestamp |-> Undefined]}
      \cup (IF IsNum(lastPrice)
            THEN {[price_brl |-> lastPrice, timestamp |-> Num(t)],
                  [price_brl |-> Num(lastPrice.val + priceThreshold),
                   timestamp |-> Num(t)]}
            ELSE {})
      \cup {FreshUpdate(u) : u \in OlderTimestamps}

OtherTypes == {"stream_end", "pipeline_stopped", "cache_stats", "statistics_update"}

(***************************************************************************)
(* Steps                                                                   *)
(***************************************************************************)
\* the responses of a loadInitialData() or changeTimeRange() arrive; init()
\* goes on to its second await, loadCacheStats(), when it was the first load
LoadDone ==
    \E r \in inflight, ok \in BOOLEAN :
       /\ inflight' = inflight \ {r}
       /\ IF ok THEN updateChart(Hist(r.hours, Now), r.hours)
          ELSE UNCHANGED <<chartData, chartLabels, realTimestamps, loadedFor, appended>>
       /\ pc' = IF r.from = "init" THEN "stats" ELSE pc
       /\ last' = [NoEvent EXCEPT !.op = "load", !.renders = IF ok THEN 1 ELSE 0,
                                  !.superseded = r.superseded]
       /\ UNCHANGED <<currentTimeRange, lastPrice, eventSource, connectionStatus,
                      clock, budget>>

\* loadCacheStats() of init() has settled, with the statistics or with a
\* failure it logs: init() goes on to setupEventListeners() and startSSE()
CacheStatsDone ==
    /\ pc = "stats"
    /\ pc' = "running"
    /\ eventSource' = "connecting"
    /\ last' = [NoEvent EXCEPT !.op = "init"]
    /\ UNCHANGED <<currentTimeRange, lastPrice, chartData, chartLabels,
                   realTimestamps, connectionStatus, inflight, clock, loadedFor,
                   appended, budget>>

\* click on a range button: changeTimeRange(hours) up to its fetch
ChangeTimeRange ==
    \E hours \in Ranges :
       /\ pc = "running"
       /\ budget.reloads > 0
       /\ currentTimeRange' = hours
       /\ inflight' = {[r EXCEPT !.superseded = TRUE] : r \in inflight} \cup
             {[id |-> MaxReloads - budget.reloads + 1, hours |-> hours,
               from |-> "range", superseded |-> FALSE]}
       /\ budget' = [budget EXCEPT !.reloads = @ - 1]
       /\ last' = [NoEvent EXCEPT !.op = "changeTimeRange"]
       /\ UNCHANGED <<pc, lastPrice, chartData, chartLabels, realTimestamps,
                      eventSource, connectionStatus, clock, loadedFor, appended>>

\* the visibility refresh going back to the default range
VisibilityChange_reset ==
    /\ pc = "running"
    /\ budget.reloads > 0
    /\ currentTimeRange' = DefaultTimeRange
    /\ inflight' = inflight \cup
          {[id |-> MaxReloads - budget.reloads + 1, hours |-> 24,
            from |-> "visibility", superseded |-> FALSE]}
    /\ budget' = [budget EXCEPT !.reloads = @ - 1]
    /\ last' = [NoEvent EXCEPT !.op = "visibilitychange"]
    /\ UNCHANGED <<pc, lastPrice, chartData, chartLabels,
                   realTimestamps, eventSource, connectionStatus, clock, loadedFor,
                   appended>>

\* the page becomes visible again: loadInitialData() up to its fetch
VisibilityChange ==
    /\ pc = "running"
    /\ budget.reloads > 0
    /\ inflight' = inflight \cup
          {[id |-> MaxReloads - budget.reloads + 1, hours |-> 24,
            from |-> "visibility", superseded |-> FALSE]}
    /\ budget' = [budget EXCEPT !.reloads = @ - 1]
    /\ last' = [NoEvent EXCEPT !.op = "visibilitychange"]
    /\ UNCHANGED <<pc, currentTimeRange, lastPrice, chartData, chartLabels,
                   realTimestamps, eventSource, connectionStatus, clock, loadedFor,
                   appended>>

\* window.dashboardInstance.stopSSE() called from outside the class (the
\* instance is global from the first line of init()), at any time
StopSSE ==
    /\ pc # "off"
    /\ budget.stops > 0
    /\ budget' = [budget EXCEPT !.stops = @ - 1]
    /\ stopSSE
    /\ last' = [NoEvent EXCEPT
                   !.op = IF last.op \in {"stopSSE", "stopSSE again"}
                          THEN "stopSSE again" ELSE "stopSSE"]
    /\ UNCHANGED <<pc, currentTimeRange, lastPrice, chartData, chartLabels,
                   realTimestamps, inflight, clock, loadedFor, appended>>

\* window 'beforeunload': the EventSource is closed, the field and the
\* status text stay as they are; nothing ends the page's script when the
\* unload is cancelled
BeforeUnload ==
    /\ pc = "running"
    /\ eventSource' = IF eventSource # "null" THEN "closed" ELSE eventSource
    /\ last' = [NoEvent EXCEPT !.op = "beforeunload"]
    /\ UNCHANGED <<pc, currentTimeRange, lastPrice, chartData, chartLabels,
                   realTimestamps, connectionStatus, inflight, clock, loadedFor,
                   appended, budget>>

\* eventSource.onopen
SSEOpen ==
    /\ eventSource = "connecting"
    /\ eventSource' = "open"
    /\ connectionStatus' = "Connected"
    /\ last' = [NoEvent EXCEPT !.op = "open"]
    /\ UNCHANGED <<pc, currentTimeRange, lastPrice, chartData, chartLabels,
                   realTimestamps, inflight, clock, loadedFor, appended, budget>>

\* eventSource.onerror: the browser retries on its own
SSEError ==
    /\ eventSource \in {"connecting", "open"}
    /\ budget.anomalies > 0
    /\ eventSource' = "connecting"
    /\ connectionStatus' = "Reconnecting..."
    /\ budget' = [budget EXCEPT !.anomalies = @ - 1]
    /\ last' = [NoEvent EXCEPT !.op = "error"]
    /\ UNCHANGED <<pc, currentTimeRange, lastPrice, chartData, chartLabels,
                   realTimestamps, inflight, clock, loadedFor, appended>>

\* eventSource.onmessage with the next price update of the server
SSEPriceUpdate ==
    /\ eventSource = "open"
    /\ budget.msgs > 0
    /\ handlePriceUpdate(FreshUpdate(Now + 1))
    /\ clock' = clock + 1
    /\ budget' = [budget EXCEPT !.msgs = @ - 1]
    /\ UNCHANGED <<pc, currentTimeRange, inflight, loadedFor>>

\* eventSource.onmessage with a repeated, late, unchanged, one centavo higher
\* or incomplete update
SSEOddUpdate ==
    \E data \in OddUpdates(Now + 1) :
       /\ eventSource = "open"
       /\ budget.msgs > 0
       /\ budget.anomalies > 0
       /\ handlePriceUpdate(data)
       /\ clock' = clock + 1
       /\ budget' = [budget EXCEPT !.msgs = @ - 1, !.anomalies = @ - 1]
       /\ UNCHANGED <<pc, currentTimeRange, inflight, loadedFor>>

\* eventSource.onmessage with a message of another type
SSEOtherMessage ==
    \E type \in OtherTypes :
       /\ eventSource = "open"
       /\ budget.msgs > 0
       /\ budget.anomalies > 0
       /\ handleOther(type)
       /\ budget' = [budget EXCEPT !.msgs = @ - 1, !.anomalies = @ - 1]
       /\ UNCHANGED <<pc, currentTimeRange, inflight, clock, loadedFor>>

\* eventSource.onmessage with a payload JSON.parse rejects: caught and logged
SSEUnparsable ==
    /\ eventSource = "open"
    /\ budget.msgs > 0
    /\ budget.anomalies > 0
    /\ budget' = [budget EXCEPT !.msgs = @ - 1, !.anomalies = @ - 1]
    /\ last' = [NoEvent EXCEPT !.op = "unparsable"]
    /\ UNCHANGED <<pc, currentTimeRange, lastPrice, chartData, chartLabels,
                   realTimestamps, eventSource, connectionStatus, inflight, clock,
                   loadedFor, appended>>

Next ==
    \/ LoadDone /\ raised' = FALSE /\ UNCHANGED <<retryVars, harnessVars>>
    \/ CacheStatsDone /\ raised' = FALSE /\ UNCHANGED <<retryVars, harnessVars>>
    \/ ChangeTimeRange /\ raised' = FALSE /\ UNCHANGED <<retryVars, harnessVars>>
    \/ VisibilityChange /\ raised' = FALSE /\ UNCHANGED <<retryVars, harnessVars>>
    \/ BeforeUnload /\ raised' = FALSE /\ UNCHANGED <<retryVars, harnessVars>>
    \/ StopSSE /\ UNCHANGED <<retryVars, harnessVars>>
    \/ SSEOpen /\ raised' = FALSE /\ UNCHANGED <<retryVars, harnessVars>>
    \/ SSEError /\ raised' = FALSE /\ UNCHANGED <<retryVars, harnessVars>>
    \/ SSEPriceUpdate /\ raised' = FALSE /\ UNCHANGED <<retryVars, harnessVars>>
    \/ SSEOddUpdate /\ raised' = FALSE /\ UNCHANGED <<retryVars, harnessVars>>
    \/ SSEOtherMessage /\ UNCHANGED <<retryVars, harnessVars>>
    \/ SSEUnparsable /\ raised' = FALSE /\ UNCHANGED <<retryVars, harnessVars>>

Spec == Init /\ [][Next]_vars

(***************************************************************************)
(* The reconnecting client: startDataStream, handleStreamError,            *)
(* startPolling and the window listeners                                   *)
(***************************************************************************)

\* constructor and init(): initializeChart has created the chart,
\* startDataStream the first EventSource, and loadInitialData() has issued
\* the request of its loadLatestData() and awaits it
InitRetry ==
    /\ DashIdle
    /\ SampleIdle
    /\ LabelIdle
    /\ stream = "connecting"
    /\ isConnected = FALSE
    /\ retryCount = 0
    /\ retryDelay = initialRetryDelay
    /\ timers = <<>>
    /\ polling = 0
    /\ destroyed = FALSE
    /\ streak = [failures |-> 0, delays |-> <<>>]
    /\ opened = 0
    /\ manual = 0
    /\ rlast = "init"
    /\ priceChart = [labels |-> <<>>, data |-> <<>>, attached |-> TRUE]
    /\ latest = 1
    /\ hourly = {}
    /\ issued = 0
    /\ delivered = 0
    /\ live = 1

\* eventSource.close() of the current EventSource: one fewer is live when
\* it had not been closed before
closeCurrent == IF stream \in {"connecting", "open"} THEN live - 1 ELSE live

\* startDataStream() creating the new EventSource without closing the old
startDataStream_leak ==
    /\ stream' = "connecting"
    /\ live' = live + 1

\* startDataStream(): close the current EventSource, create a new one
startDataStream ==
    /\ stream' = "connecting"
    /\ live' = closeCurrent + 1

\* the doubling without its cap
nextRetryDelay_uncapped(delay) == delay * 2

\* retryDelay = Math.min(retryDelay * 2, 30000)
nextRetryDelay(delay) == Min(delay * 2, maxRetryDelay)

canRetry(count) == count < maxRetries

\* handleStreamError(): close, then schedule a reconnect or start polling
handleStreamError ==
    /\ stream' = "closed"
    /\ live' = closeCurrent
    /\ IF canRetry(retryCount)
       THEN /\ retryCount' = retryCount + 1
            /\ timers' = Append(timers, retryDelay)
            /\ retryDelay' = nextRetryDelay(retryDelay)
            /\ polling' = polling
            /\ streak' = [failures |-> streak.failures + 1,
                          delays |-> Append(streak.delays, retryDelay)]
       ELSE /\ polling' = polling + 1
            /\ streak' = [streak EXCEPT !.failures = @ + 1]
            /\ UNCHANGED <<retryCount, retryDelay, timers>>

\* onopen resetting the count and keeping the delay
StreamOpen_keepDelay ==
    /\ stream = "connecting"
    /\ opened < MaxOpens
    /\ stream' = "open"
    /\ isConnected' = TRUE
    /\ retryCount' = 0
    /\ streak' = [failures |-> 0, delays |-> <<>>]
    /\ opened' = opened + 1
    /\ rlast' = "open"
    /\ UNCHANGED <<retryDelay, timers, polling, destroyed, manual>>
    /\ UNCHANGED loadVars
    /\ UNCHANGED live

\* eventSource.onopen
StreamOpen ==
    /\ stream = "connecting"
    /\ opened < MaxOpens
    /\ stream' = "open"
    /\ isConnected' = TRUE
    /\ retryCount' = 0
    /\ retryDelay' = initialRetryDelay
    /\ streak' = [failures |-> 0, delays |-> <<>>]
    /\ opened' = opened + 1
    /\ rlast' = "open"
    /\ UNCHANGED <<timers, polling, destroyed, manual>>
    /\ UNCHANGED loadVars
    /\ UNCHANGED live

\* eventSource.onerror, of an EventSource that has not been closed
StreamError ==
    /\ stream \in {"connecting", "open"}
    /\ isConnected' = FALSE
    /\ handleStreamError
    /\ rlast' = "error"
    /\ UNCHANGED <<destroyed, opened, manual>>
    /\ UNCHANGED loadVars

\* a timer can fire once no timer set before it is due earlier or together
timerDue(i) == \A j \in 1..(i - 1) : timers[j] > timers[i]

RemoveAt(seq, i) == SubSeq(seq, 1, i - 1) \o SubSeq(seq, i + 1, Len(seq))

\* the setTimeout callback of handleStreamError
ReconnectTimer ==
    \E i \in 1..Len(timers) :
        /\ timerDue(i)
        /\ timers' = RemoveAt(timers, i)
        /\ startDataStream
        /\ rlast' = "timer"
        /\ UNCHANGED <<isConnected, retryCount, retryDelay, polling,
                       destroyed, streak, opened, manual>>
        /\ UNCHANGED loadVars

\* window 'focus'
WindowFocus ==
    /\ manual < MaxManual
    /\ manual' = manual + 1
    /\ IF ~isConnected THEN startDataStream ELSE UNCHANGED <<stream, live>>
    /\ rlast' = "focus"
    /\ UNCHANGED <<isConnected, retryCount, retryDelay, timers, polling,
                   destroyed, streak, opened>>
    /\ UNCHANGED loadVars

\* window 'online'
NetworkOnline ==
    /\ manual < MaxManual
    /\ manual' = manual + 1
    /\ startDataStream
    /\ rlast' = "online"
    /\ UNCHANGED <<isConnected, retryCount, retryDelay, timers, polling,
                   destroyed, streak, opened>>
    /\ UNCHANGED loadVars

\* window 'offline'
NetworkOffline ==
    /\ manual < MaxManual
    /\ manual' = manual + 1
    /\ isConnected' = FALSE
    /\ rlast' = "offline"
    /\ UNCHANGED <<stream, retryCount, retryDelay, timers, polling,
                   destroyed, streak, opened>>
    /\ UNCHANGED loadVars
    /\ UNCHANGED live

\* window 'beforeunload': eventSource.close() and nothing else; the
\* listener stays registered after destroy()
WindowBeforeUnload ==
    /\ stream' = "closed"
    /\ live' = closeCurrent
    /\ rlast' = "beforeunload"
    /\ UNCHANGED <<isConnected, retryCount, retryDelay, timers, polling,
                   destroyed, streak, opened, manual>>
    /\ UNCHANGED loadVars

\* this.priceChart.destroy() of Chart.js 4.4 (README.md:181; the library is
\* not part of the repository): the chart stops its animations and lets go
\* of its canvas; called on a chart that holds no canvas any more, it
\* finds nothing to release and returns
chartDestroy ==
    /\ priceChart' = [priceChart EXCEPT !.attached = FALSE]
    /\ raised' = FALSE

\* destroy(): closes the EventSource (close() of a closed EventSource does
\* nothing) and destroys the chart; it clears no timer, no request, no
\* listener and no field, and nothing keeps it from being called again
Destroy ==
    /\ destroyed' = TRUE
    /\ stream' = "closed"
    /\ live' = closeCurrent
    /\ chartDestroy
    /\ rlast' = IF destroyed THEN "destroy again" ELSE "destroy"
    /\ UNCHANGED <<isConnected, retryCount, retryDelay, timers, polling,
                   streak, opened, manual, latest, hourly, issued, delivered>>

(***************************************************************************)
(* The chart of the reconnecting client: updateChart(hourlyData) replaces  *)
(* labels and prices by those of the items that carry a timestamp and a    *)
(* price, sorted by timestamp                                              *)
(***************************************************************************)
\* DD/MM HH:00 of the item's date
HourLabel(t) == <<"hour", t \div 1440, (t % 1440) \div 60>>

RECURSIVE KeepPriced(_)
KeepPriced(items) ==
    IF items = <<>> THEN <<>>
    ELSE IF Truthy(Head(items).price) THEN <<Head(items)>> \o KeepPriced(Tail(items))
    ELSE KeepPriced(Tail(items))

updateHourlyChart(hourlyData) ==
    \E kept \in {KeepPriced(SortByTimestamp(hourlyData))} :
       priceChart' =
          [priceChart EXCEPT
             !.labels = [i \in 1..Len(kept) |-> HourLabel(kept[i].timestamp)] \o <<>>,
             !.data = [i \in 1..Len(kept) |-> kept[i].price.val] \o <<>>]

\* the hourly series the server holds when request k is answered: newest
\* first, one item without price
HourlyData(k) ==
    <<[timestamp |-> Now0 + 60 * k, price |-> Num(PriceAt(Now0 + 60 * k))],
      [timestamp |-> Now0 + 60 * k - 60, price |-> Undefined],
      [timestamp |-> Now0 + 60 * k - 120, price |-> Num(PriceAt(Now0 + 60 * k - 120))]>>

\* what a stream message can carry: text that is no JSON, a latest price
\* alone, or a latest price with an hourly series
Payloads ==
    {[kind |-> "unparsable", carries |-> FALSE, series |-> <<>>],
     [kind |-> "message", carries |-> FALSE, series |-> <<>>],
     [kind |-> "message", carries |-> TRUE, series |-> HourlyData(issued + 1)]}

\* updateDashboard(data)
updateDashboard(payload) ==
    IF payload.carries THEN updateHourlyChart(payload.series)
    ELSE UNCHANGED priceChart

\* eventSource.onmessage taking a parse failure for a stream error
onmessage_asError(payload) ==
    IF payload.kind = "unparsable"
    THEN /\ isConnected' = FALSE
         /\ handleStreamError
         /\ UNCHANGED priceChart
    ELSE /\ updateDashboard(payload)
         /\ UNCHANGED <<stream, isConnected, retryCount, retryDelay, timers,
                        polling, streak, live>>

\* eventSource.onmessage: JSON.parse, updateDashboard; an exception is logged
onmessage(payload) ==
    /\ IF payload.kind = "unparsable" THEN UNCHANGED priceChart
       ELSE updateDashboard(payload)
    /\ UNCHANGED <<stream, isConnected, retryCount, retryDelay, timers,
                   polling, streak, live>>

\* a message arrives on the open stream
StreamMessage ==
    \E payload \in Payloads :
       /\ stream = "open"
       /\ delivered < MaxStreamMsgs
       /\ delivered' = delivered + 1
       /\ onmessage(payload)
       /\ rlast' = payload.kind
       /\ UNCHANGED <<destroyed, opened, manual, latest, hourly, issued>>

\* click on the refresh button: loadInitialData() up to the first await,
\* the request of loadLatestData() is on its way
RefreshClick ==
    /\ manual < MaxManual
    /\ manual' = manual + 1
    /\ latest' = latest + 1
    /\ rlast' = "refresh"
    /\ UNCHANGED <<stream, isConnected, retryCount, retryDelay, timers, polling,
                   destroyed, streak, opened, priceChart, hourly, issued,
                   delivered, live>>

\* loadInitialData() resumes once its loadLatestData() has settled: the
\* response is shown or the failure is caught inside loadLatestData(), and
\* in both cases loadHourlyData() issues its request
LatestDone ==
    /\ latest > 0
    /\ latest' = latest - 1
    /\ hourly' = hourly \cup {issued}
    /\ issued' = issued + 1
    /\ rlast' = "latest"
    /\ UNCHANGED <<stream, isConnected, retryCount, retryDelay, timers, polling,
                   destroyed, streak, opened, manual, priceChart, delivered,
                   live>>

\* loadHourlyData() after its fetch resolves
HourlyDone ==
    \E k \in hourly, ok \in BOOLEAN :
       /\ hourly' = hourly \ {k}
       /\ IF ok THEN updateHourlyChart(HourlyData(k)) ELSE UNCHANGED priceChart
       /\ rlast' = "hourly"
       /\ UNCHANGED <<stream, isConnected, retryCount, retryDelay, timers, polling,
                      destroyed, streak, opened, manual, latest, issued,
                      delivered, live>>

NextRetry ==
    \/ StreamMessage /\ raised' = FALSE /\ UNCHANGED <<dashVars, harnessVars>>
    \/ RefreshClick /\ raised' = FALSE /\ UNCHANGED <<dashVars, harnessVars>>
    \/ LatestDone /\ raised' = FALSE /\ UNCHANGED <<dashVars, harnessVars>>
    \/ HourlyDone /\ raised' = FALSE /\ UNCHANGED <<dashVars, harnessVars>>
    \/ StreamOpen /\ raised' = FALSE /\ UNCHANGED <<dashVars, harnessVars>>
    \/ StreamError /\ raised' = FALSE /\ UNCHANGED <<dashVars, harnessVars>>
    \/ ReconnectTimer /\ raised' = FALSE /\ UNCHANGED <<dashVars, harnessVars>>
    \/ WindowFocus /\ raised' = FALSE /\ UNCHANGED <<dashVars, harnessVars>>
    \/ NetworkOnline /\ raised' = FALSE /\ UNCHANGED <<dashVars, harnessVars>>
    \/ NetworkOffline /\ raised' = FALSE /\ UNCHANGED <<dashVars, harnessVars>>
    \/ WindowBeforeUnload /\ raised' = FALSE /\ UNCHANGED <<dashVars, harnessVars>>
    \/ Destroy /\ UNCHANGED <<dashVars, harnessVars>>

SpecRetry == InitRetry /\ [][NextRetry]_vars

(***************************************************************************)
(* A page with either client: the dashboard of the first class when its    *)
(* constructor has run (pc is not "off"), the reconnecting client          *)
(* otherwise.  The dashboard is explored with the budget that has calls    *)
(* of stopSSE.                                                             *)
(***************************************************************************)
InitTeardown == (Init /\ budget.stops > 0) \/ InitRetry

NextTeardown ==
    \/ pc # "off" /\ Next
    \/ pc = "off" /\ NextRetry

SpecTeardown == InitTeardown /\ [][NextTeardown]_vars

(***************************************************************************)
(* smartSampleData applied to series of every length                       *)
(***************************************************************************)

Series(n) == [i \in 1..n |-> [timestamp |-> i, price_brl |-> PriceAt(i)]] \o <<>>

InitSample ==
    /\ DashIdle
    /\ RetryIdle
    /\ LabelIdle
    /\ sampleIn \in {Series(n) : n \in 0..MaxSampleLen}
    /\ sampleMax \in 1..MaxSampleMax
    /\ sampleOut = <<>>
    /\ sampleDone = FALSE

Sample ==
    /\ ~sampleDone
    /\ sampleOut' = smartSampleData(sampleIn, sampleMax)
    /\ sampleDone' = TRUE
    /\ UNCHANGED <<sampleIn, sampleMax>>

NextSample == Sample /\ UNCHANGED <<dashVars, retryVars, labelVars, raised>>

SpecSample == InitSample /\ [][NextSample]_vars

(***************************************************************************)
(* createSmartLabelsOnly applied to evenly spread series ending now        *)
(***************************************************************************)
\* minutes between two points: dense, the chart-data spacing, 10 points over
\* 6 hours, one point an hour
LabelSteps == {5, 15, 36, 60, 120}

LabelSeries(n, step) ==
    [i \in 1..n |-> [timestamp |-> Now0 - (n - i) * step,
                     price_brl |-> PriceAt(Now0 - (n - i) * step)]] \o <<>>

Reverse(seq) == [i \in 1..Len(seq) |-> seq[Len(seq) + 1 - i]] \o <<>>

InitLabel ==
    /\ DashIdle
    /\ RetryIdle
    /\ SampleIdle
    /\ labelIn \in {LabelSeries(n, step) : n \in 0..MaxLabelLen, step \in LabelSteps}
                   \cup {Reverse(LabelSeries(n, step)) :
                            n \in 0..MaxLabelLen, step \in LabelSteps}
    /\ labelHours \in Ranges
    /\ labelOut = [labels |-> <<>>, buckets |-> <<>>]
    /\ labelDone = FALSE

Label ==
    /\ ~labelDone
    /\ \E r \in {AssignLabels(labelIn, 1, Len(labelIn), {},
                               idealTimes(labelHours, Now0), labelHours, Now0)} :
          labelOut' = [labels |-> r.labels, buckets |-> r.buckets]
    /\ labelDone' = TRUE
    /\ UNCHANGED <<labelIn, labelHours>>

NextLabel == Label /\ UNCHANGED <<dashVars, retryVars, sampleVars, raised>>

SpecLabel == InitLabel /\ [][NextLabel]_vars

(***************************************************************************)
(* Properties of the chart window                                          *)
(***************************************************************************)
Timestamps(obs) == [i \in 1..Len(obs) |-> obs[i][1]] \o <<>>

Prices(obs) == [i \in 1..Len(obs) |-> obs[i][2]] \o <<>>

StrictlyIncreasing(seq) == \A i \in 1..(Len(seq) - 1) : seq[i] < seq[i + 1]

LastN(seq, n) == SubSeq(seq, Len(seq) - n + 1, Len(seq))

Range(seq) == {seq[i] : i \in 1..Len(seq)}

\* label l is empty or shows a time of day less than threshold (30 minutes)
\* away from instant t
LabelNear(l, t) ==
    \/ l = NoLabel
    \/ LET d == (l[Len(l)] - (t % 1440) + 1440) % 1440
       IN /\ d < threshold \/ d > 1440 - threshold
          /\ l[1] = "date" => Abs(l[2] - t \div 1440) <= 1

\* the price update handled by the step carried a price and a timestamp
WellFormed(e) ==
    /\ e.op = "price_update"
    /\ Truthy(e.price)
    /\ IsNum(e.timestamp)

\* C1: whatever sequence of points was appended, and whatever it held before,
\* the window never holds more than maxPoints (150) entries.
C1_WindowBounded ==
    /\ Len(chartData) <= maxPoints
    /\ Len(realTimestamps) <= maxPoints
    /\ Len(chartLabels) <= maxPoints

\* a full window after an append that had to evict: 96 loaded points and
\* more than 54 appended ones
C1_Witness ==
    /\ last.pushed
    /\ loadedFor = 24
    /\ Len(appended) > maxPoints - HistCount(24)
    /\ Len(chartData) = maxPoints

\* C2: after any sequence of appends the timestamps of the window are
\* strictly increasing: sorted, and no timestamp twice.
C2_SortedUnique == StrictlyIncreasing(realTimestamps)

\* C3: the response of a reload that completes after a later range selection
\* is discarded: it leaves the window as it was, so that the window ends with
\* the data of the selected range only.
C3_StaleReloadDiscarded ==
    [][(last'.op = "load" /\ last'.superseded)
          => UNCHANGED <<chartData, chartLabels, realTimestamps, loadedFor>>]_vars

\* C5: a price update carrying a price and a timestamp is appended to the
\* chart if and only if no price was accepted before or the price differs from
\* the last accepted one by more than 0.01 (one centavo); otherwise the window
\* is unchanged.
C5_GateIff ==
    [][WellFormed(last') =>
          /\ (appended' # appended) <=>
                 \/ lastPrice.kind = "null"
                 \/ /\ IsNum(lastPrice)
                    /\ Abs(last'.price.val - lastPrice.val) > priceThreshold
          /\ (appended' = appended) =>
                 UNCHANGED <<chartData, realTimestamps, chartLabels>>]_vars

\* C6: an update whose timestamp is already in the window does not make the
\* window longer.
C6_UpsertKeepsLength ==
    [][(WellFormed(last') /\ last'.timestamp.val \in Range(realTimestamps))
          => Len(realTimestamps') <= Len(realTimestamps)]_vars

\* C7: an update older than the newest entry of the window by StaleGap
\* minutes or more, which is beyond any small tolerance, and whose timestamp
\* is not in the window, leaves points, labels and timestamps unchanged.
C7_OutOfOrderRejected ==
    [][(/\ WellFormed(last')
        /\ Len(realTimestamps) > 0
        /\ last'.timestamp.val <= realTimestamps[Len(realTimestamps)] - StaleGap
        /\ last'.timestamp.val \notin Range(realTimestamps))
          => UNCHANGED <<chartData, realTimestamps, chartLabels>>]_vars

\* C8: when the window started empty and more than maxPoints points with
\* strictly increasing timestamps were appended, it holds exactly the last
\* maxPoints of them, in order.
C8_LastWInOrder ==
    (/\ loadedFor = 0
     /\ Len(appended) > maxPoints
     /\ StrictlyIncreasing(Timestamps(appended)))
        => /\ realTimestamps = LastN(Timestamps(appended), maxPoints)
           /\ chartData = LastN(Prices(appended), maxPoints)

\* the initial load failed, and two points more than the window holds were
\* appended to the empty chart
C8_Witness ==
    /\ loadedFor = 0
    /\ Len(appended) = maxPoints + 2
    /\ StrictlyIncreasing(Timestamps(appended))
    /\ Len(realTimestamps) = maxPoints

\* C9: the prices, the labels and the timestamps of the chart have the same
\* length, and entry i of each belongs to the same point: a point of the
\* loaded history or a streamed point that was appended.
C9_Aligned ==
    /\ Len(chartData) = Len(realTimestamps)
    /\ Len(chartLabels) = Len(realTimestamps)
    /\ \A i \in 1..Len(realTimestamps) :
          /\ \/ chartData[i] = PriceAt(realTimestamps[i])
             \/ <<realTimestamps[i], chartData[i]>> \in Range(appended)
          /\ i <= Len(chartLabels) => LabelNear(chartLabels[i], realTimestamps[i])

\* a loaded chart with labelled points, after an append that evicted
C9_Witness ==
    /\ last.pushed
    /\ loadedFor # 0
    /\ Len(realTimestamps) = maxPoints
    /\ \E i \in 1..Len(chartLabels) : chartLabels[i] # NoLabel
    /\ chartLabels[Len(chartLabels)] # NoLabel

(***************************************************************************)
(* Properties of the reconnecting client                                   *)
(***************************************************************************)
Backoff == <<1000, 2000, 4000, 8000, 16000>>

\* the stream has failed more than maxRetries times in a row since the page
\* was loaded, without ever opening
FellBack == opened = 0 /\ streak.failures > maxRetries

\* the reconnects scheduled by the failures in a row since the last open
\* wait 1, 2, 4, 8 and 16 seconds, and a sixth failure starts polling
C4_BackoffSchedule ==
    /\ streak.delays = SubSeq(Backoff, 1, Min(streak.failures, maxRetries))
    /\ streak.failures > maxRetries => polling >= 1

\* C4: from a fresh client, failures 1 to 5 in a row schedule reconnects
\* after 1 s, 2 s, 4 s, 8 s and 16 s; the sixth starts polling and schedules
\* none, and after it no reconnect timer fires any more.
C4_BackoffThenPollingOnly ==
    opened = 0 =>
        /\ C4_BackoffSchedule
        /\ FellBack => rlast # "timer"

(***************************************************************************)
(* Properties of smartSampleData                                           *)
(***************************************************************************)
\* C10: for maxPoints >= 1 the result of smartSampleData is not longer than
\* maxPoints, and it is the input when the input is not longer than maxPoints.
C10_SampleBounded ==
    (sampleDone /\ sampleMax >= 1) =>
        /\ Len(sampleOut) <= sampleMax
        /\ Len(sampleIn) <= sampleMax => sampleOut = sampleIn

\* a series longer than maxPoints was thinned to exactly maxPoints points
C10_Witness ==
    /\ sampleDone
    /\ sampleMax >= 2
    /\ Len(sampleIn) > 2 * sampleMax
    /\ Len(sampleOut) = sampleMax
    /\ sampleOut[2] = sampleIn[1 + CeilDiv(Len(sampleIn), sampleMax)]

(***************************************************************************)
(* Properties of createSmartLabelsOnly                                     *)
(***************************************************************************)
Labelled(labels) == {i \in 1..Len(labels) : labels[i] # NoLabel}

\* C11: createSmartLabelsOnly returns one label per point, at most totalLabels
\* (6) of them non-empty; no ideal time is given to two points, and the
\* non-empty labels are pairwise distinct.
C11_LabelsSparseDistinct ==
    labelDone =>
        /\ Len(labelOut.labels) = Len(labelIn)
        /\ Labelled(labelOut.labels) = {i \in 1..Len(labelIn) : labelOut.buckets[i] # 0}
        /\ Cardinality(Labelled(labelOut.labels)) <= totalLabels
        /\ \A i, j \in Labelled(labelOut.labels) :
              i # j => /\ labelOut.buckets[i] # labelOut.buckets[j]
                       /\ labelOut.labels[i] # labelOut.labels[j]

\* ten points spread evenly over the six hours before now, labelled for the
\* 6-hour range: five of them got a label
C11_Witness ==
    /\ labelDone
    /\ labelHours = 6
    /\ Len(labelIn) = 10
    /\ labelIn[2].timestamp - labelIn[1].timestamp = 36
    /\ Cardinality(Labelled(labelOut.labels)) = 5

\* C12: the labels of the chart hold at most totalLabels (6) non-empty
\* entries, and no non-empty label twice.
C12_ChartLabelsSparse ==
    /\ Cardinality(Labelled(chartLabels)) <= totalLabels
    /\ \A i, j \in Labelled(chartLabels) : i # j => chartLabels[i] # chartLabels[j]

\* C13: once the stream has been closed by destroy, the connection stays
\* closed for good: no reconnect timer, window focus or network event opens
\* a transport again
C13_ClosedIsTerminal == destroyed => stream = "closed"

\* C14: destroy cancels the pending reconnect timer: with a reconnect
\* scheduled when destroy ran, the step after destroy is never that timer
\* opening a new transport
C14_DestroyCancelsTimer ==
    [][(rlast = "destroy" /\ timers # <<>>) => ~(rlast' = "timer" /\ stream' = "connecting")]_vars

\* C15: the response of a loadHourlyData request that was in flight when
\* destroy ran is discarded: its completion leaves the chart's labels and
\* prices as they were
C15_LateLoadDiscarded ==
    [][(destroyed /\ rlast' = "hourly") => priceChart' = priceChart]_vars

C16_DestroyedTwice ==
    /\ rlast = "destroy again"
    /\ destroyed
    /\ stream = "closed"
    /\ ~priceChart.attached
    /\ timers # <<>>
    /\ hourly # {}
    /\ ~raised

\* C18: a stream message that is no JSON is dropped without any connection
\* state transition: connection state, retry counter and retry delay are
\* unchanged, no reconnect is scheduled and no polling started
C18_MalformedDropped ==
    [][rlast' = "unparsable"
         => UNCHANGED <<stream, isConnected, retryCount, retryDelay, timers,
                        polling, priceChart>>]_vars

C18_Witness ==
    /\ rlast = "unparsable"
    /\ stream = "open"
    /\ isConnected
    /\ delivered = 1

\* C17: a pipeline_stopped message and a stream_end message both end the
\* stream as stopSSE does: after either, the EventSource is closed and gone
C17_StopMessagesClose ==
    [][last'.op \in {"pipeline_stopped", "stream_end"} => eventSource' = "null"]_vars

\* C19: a price update the change detector rejects mutates nothing of the
\* chart and draws nothing: prices, labels, timestamps and the last
\* accepted price are unchanged and chart.update is not called
C19_RejectedUpdateNoEffect ==
    [][(last'.op = "price_update" /\ ~last'.gate)
         => /\ UNCHANGED <<chartData, chartLabels, realTimestamps, lastPrice>>
            /\ last'.renders = 0]_vars

C19_Witness ==
    /\ last.op = "price_update"
    /\ ~last.gate
    /\ IsNum(last.timestamp)
    /\ last.price = lastPrice
    /\ Len(chartData) > 0
    /\ last.timestamp.val > realTimestamps[Len(realTimestamps)]

\* C20: currentTimeRange is changed by changeTimeRange alone: stream
\* messages, reconnects, responses of reloads and visibility refreshes
\* leave it as it is
C20_RangeOnlyByChange ==
    [][currentTimeRange' # currentTimeRange => last'.op = "changeTimeRange"]_vars

C20_Witness ==
    /\ currentTimeRange = 6
    /\ last.op = "load"
    /\ loadedFor = 24
    /\ last.renders = 1

(***************************************************************************)
(* Properties of the path from a streamed update to the drawn chart        *)
(***************************************************************************)
\* C21: whenever the change detector accepts a streamed update (lastPrice is
\* set to its price), the update is appended as the newest entry of the
\* window and the chart is drawn exactly once for it
C21_AcceptedIsAppended ==
    (last.op = "price_update" /\ last.gate)
       => /\ last.pushed
          /\ last.renders = 1
          /\ chartData[Len(chartData)] = last.price.val
          /\ realTimestamps[Len(realTimestamps)] = last.timestamp.val

\* C22: a malformed price update is dropped without effect on what follows:
\* a later well-formed update whose price differs by more than 0.01 from the
\* last price added to the chart is accepted and appended
C22_MalformedLeavesGate ==
    [][(/\ WellFormed(last')
        /\ appended # <<>>
        /\ Abs(last'.price.val - appended[Len(appended)][2]) > priceThreshold)
         => last'.pushed]_vars

\* C23: changeTimeRange clears the window before it requests the reload:
\* the step that selects a range and issues its request leaves no point of
\* the previous range in the window
C23_RangeChangeClears ==
    [][(last'.op = "changeTimeRange" /\ inflight' # inflight)
         => /\ realTimestamps' = <<>>
            /\ chartData' = <<>>
            /\ chartLabels' = <<>>]_vars

\* the window as a series of points
Window ==
    [i \in 1..Len(realTimestamps) |->
        [timestamp |-> realTimestamps[i], price_brl |-> chartData[i]]] \o <<>>

\* C24: after an accepted streamed update has been appended, the drawn
\* series is what smartSampleData with the budget of 100 points followed by
\* createSmartLabelsOnly for the current range give for the updated window
C24_RenderRecomputed ==
    last.pushed
       => \E sampled \in {smartSampleData(Window, sampleMaxPoints)} :
             /\ chartData = Pluck(sampled, "price_brl")
             /\ chartLabels = createSmartLabelsOnly(sampled, currentTimeRange, Now)

\* C25: every drawn series respects the budget of the renderer: after any
\* sequence of reloads and streamed appends it has at most 100 points
C25_RenderBudget == Len(chartData) <= sampleMaxPoints

\* C27: after a reload that was thinned by smartSampleData, the latest point
\* of the loaded series is the last point of the drawn series
C27_LatestKept ==
    (/\ last.op = "load"
     /\ last.renders = 1
     /\ HistCount(loadedFor) > sampleMaxPoints)
       => realTimestamps[Len(realTimestamps)] = Now

\* C26: given more than maxPoints elements, smartSampleData returns exactly
\* the elements at indices 0, k, 2k, ... with k = ceil(length / maxPoints),
\* in their order; the first element is always among them
C26_EveryKth ==
    (sampleDone /\ Len(sampleIn) > sampleMax)
       => LET k == CeilDiv(Len(sampleIn), sampleMax)
              kept == {p \in 0..(Len(sampleIn) - 1) : p % k = 0}
          IN /\ Len(sampleOut) = Cardinality(kept)
             /\ \A i \in 1..Len(sampleOut) : sampleOut[i] = sampleIn[(i - 1) * k + 1]
             /\ sampleOut[1] = sampleIn[1]

\* ten elements and maxPoints = 4: k = 3 and indices 0, 3, 6, 9 are kept
C26_Witness ==
    /\ sampleDone
    /\ Len(sampleIn) = 10
    /\ sampleMax = 4
    /\ sampleOut = <<sampleIn[1], sampleIn[4], sampleIn[7], sampleIn[10]>>

(***************************************************************************)
(* Properties of the retry state of the reconnecting client                *)
(***************************************************************************)
RECURSIVE Pow2(_)
Pow2(n) == IF n = 0 THEN 1 ELSE 2 * Pow2(n - 1)

\* C28: in every reachable state the delay of the next reconnect is
\* min(1 s * 2^retryCount, 30 s), retryCount is the number of failures in a
\* row so far and stays within 0..maxRetries, and no reconnect waits for a
\* delay above 30 s
C28_DelayIsBackoff ==
    /\ retryCount \in 0..maxRetries
    /\ retryCount = Min(streak.failures, maxRetries)
    /\ retryDelay = Min(initialRetryDelay * Pow2(retryCount), maxRetryDelay)
    /\ \A i \in 1..Len(timers) : timers[i] <= maxRetryDelay

\* five failures in a row: the delay has reached the cap
C28_Witness ==
    /\ retryCount = maxRetries
    /\ retryDelay = maxRetryDelay
    /\ streak.delays = <<1000, 2000, 4000, 8000, 16000>>
    /\ rlast = "error"

\* C29: a successful open resets the failure count to 0 and the delay to
\* 1 s, and the first failure after an open schedules its reconnect after
\* 1 s, however many failures came before the open
C29_OpenResets ==
    [][/\ rlast' = "open" => (retryCount' = 0 /\ retryDelay' = initialRetryDelay)
       /\ (rlast' = "error" /\ opened > 0 /\ streak.failures = 0
              /\ streak'.failures = 1)
            => timers' = Append(timers, initialRetryDelay)]_vars

\* two failures, then an open, then a failure: its reconnect waits 1 s while
\* the reconnect of the second failure, set for 2 s, is still pending
C29_Witness ==
    /\ rlast = "error"
    /\ opened > 0
    /\ streak.failures = 1
    /\ Len(timers) >= 2
    /\ timers[Len(timers)] = initialRetryDelay
    /\ \E i \in 1..Len(timers) : timers[i] = 2 * initialRetryDelay

\* C30: the last accepted price is cleared when the stream is reset: once
\* stopSSE has run for a stream_end message, lastPrice is null again, so
\* that the next price update would pass the gate whatever its price
C30_StopClearsLastPrice ==
    [][(last'.op = "stream_end" /\ eventSource' = "null") => lastPrice' = NullPrice]_vars

(***************************************************************************)
(* Properties of the buckets of createSmartLabelsOnly                      *)
(***************************************************************************)
\* the ideal instants the call of the harness worked with
Ideal == idealTimes(labelHours, Now0)

\* the buckets not claimed by the points before point i
FreeAt(i) ==
    {k \in 1..totalLabels : \A j \in 1..(i - 1) : labelOut.buckets[j] # k}

\* bucket k is a nearest free bucket of point i
NearestFree(i, k) ==
    /\ k \in FreeAt(i)
    /\ \A m \in FreeAt(i) :
          Abs(labelIn[i].timestamp - Ideal[k]) <= Abs(labelIn[i].timestamp - Ideal[m])

\* the distance from point i to bucket k
Distance(i, k) == Abs(labelIn[i].timestamp - Ideal[k])

\* C31: a point gets a label if and only if its nearest bucket not yet
\* claimed is at most 30 minutes away, exactly 30 minutes included; the
\* label is that bucket's, and otherwise the label is empty
C31_LabelIffWithin ==
    labelDone =>
       \A i \in 1..Len(labelIn) :
          IF \E k \in FreeAt(i) : NearestFree(i, k) /\ Distance(i, k) <= threshold
          THEN \E k \in FreeAt(i) :
                  /\ NearestFree(i, k)
                  /\ labelOut.labels[i] = labelFormat(Ideal[k], labelHours, Now0)
          ELSE labelOut.labels[i] = NoLabel

\* C31 as amended: a point gets a label if and only if its nearest bucket
\* not yet claimed is less than 30 minutes away; the label is that
\* bucket's, and otherwise the label is empty
C31_LabelIffNearer ==
    labelDone =>
       \A i \in 1..Len(labelIn) :
          IF \E k \in FreeAt(i) : NearestFree(i, k) /\ Distance(i, k) < threshold
          THEN \E k \in FreeAt(i) :
                  /\ NearestFree(i, k)
                  /\ labelOut.buckets[i] = k
                  /\ labelOut.labels[i] = labelFormat(Ideal[k], labelHours, Now0)
          ELSE labelOut.labels[i] = NoLabel /\ labelOut.buckets[i] = 0

\* a point exactly 30 minutes from its nearest free bucket stayed without
\* label, while another point was labelled
C31_Witness ==
    /\ labelDone
    /\ \E i \in 1..Len(labelIn) :
          /\ \E k \in FreeAt(i) : NearestFree(i, k) /\ Distance(i, k) = threshold
          /\ labelOut.labels[i] = NoLabel
    /\ \E j \in 1..Len(labelIn) : labelOut.labels[j] # NoLabel

\* the points within the threshold of bucket k
NearBucket(k) == {i \in 1..Len(labelIn) : Distance(i, k) < threshold}

\* C32: when several points of a chronological series lie within the
\* threshold of the same bucket, the first of them gets the label of the
\* bucket and the later ones get none; a bucket once claimed is given to no
\* other point
C32_FirstPointWins ==
    (labelDone /\ StrictlyIncreasing(Pluck(labelIn, "timestamp")))
       => \A k \in 1..totalLabels :
             /\ \A i \in NearBucket(k) :
                   IF \A j \in NearBucket(k) : i <= j
                   THEN /\ labelOut.buckets[i] = k
                        /\ labelOut.labels[i] = labelFormat(Ideal[k], labelHours, Now0)
                   ELSE labelOut.labels[i] = NoLabel
             /\ Cardinality({i \in 1..Len(labelIn) : labelOut.buckets[i] = k}) <= 1

\* three points or more within 30 minutes of one bucket, the first labelled
C32_Witness ==
    /\ labelDone
    /\ StrictlyIncreasing(Pluck(labelIn, "timestamp"))
    /\ \E k \in 1..totalLabels :
          /\ Cardinality(NearBucket(k)) >= 3
          /\ \E i \in NearBucket(k) : labelOut.buckets[i] = k
          /\ \E i \in NearBucket(k) : labelOut.labels[i] = NoLabel

\* 1 h of buckets up to a range of 6 h, 4 h up to 24 h, 12 h beyond
BucketInterval == IF labelHours <= 6 THEN 60 ELSE IF labelHours <= 24 THEN 240 ELSE 720

\* now - rangeHours
StartAtNow == Now0 - 60 * labelHours

\* the full hour of now, set back by 6 h up to a range of 6 h, by 24 h up to
\* 24 h, and by the range beyond
StartAtHour ==
    (Now0 - (Now0 % 60))
       - 60 * (IF labelHours <= 6 THEN 6 ELSE IF labelHours <= 24 THEN 24 ELSE labelHours)

\* the labels are those of the six instants start + i * interval, i in 0..5:
\* a labelled point carries the label of one of them and is nearer than the
\* threshold to it, and an instant with a point that near has its label shown
BucketsFrom(start) ==
    labelDone =>
       /\ \A i \in 1..Len(labelIn) :
             labelOut.labels[i] # NoLabel
                => \E k \in 0..(totalLabels - 1) :
                      /\ Abs(labelIn[i].timestamp - (start + k * BucketInterval)) < threshold
                      /\ labelOut.labels[i]
                            = labelFormat(start + k * BucketInterval, labelHours, Now0)
       /\ \A k \in 0..(totalLabels - 1) :
             (\E i \in 1..Len(labelIn) :
                 Abs(labelIn[i].timestamp - (start + k * BucketInterval)) < threshold)
                => \E i \in 1..Len(labelIn) :
                      labelOut.labels[i]
                         = labelFormat(start + k * BucketInterval, labelHours, Now0)

\* C33: the six ideal instants of createSmartLabelsOnly are
\* startTime + i * interval for i in 0..5, with startTime = now - rangeHours
\* and interval 1 h up to 6 h, 4 h up to 24 h and 12 h beyond
C33_BucketsFromNow == BucketsFrom(StartAtNow)

\* C33 as amended: the six ideal instants are startTime + i * interval for
\* i in 0..5, with startTime the full hour of now set back by 6 h (range up
\* to 6 h), 24 h (up to 24 h) or the range (beyond), and the same intervals
C33_BucketsFromHour == BucketsFrom(StartAtHour)

\* at 10:20 with a range of 72 h, a point carries the label of the instant
\* at 22:00 of the day before, the sixth of the instants from 10:00
C33_Witness ==
    /\ labelDone
    /\ labelHours = 72
    /\ Now0 % 60 # 0
    /\ \E i \in 1..Len(labelIn) :
          /\ labelOut.buckets[i] = totalLabels
          /\ labelOut.labels[i] = <<"Ontem", (StartAtHour + 5 * BucketInterval) % 1440>>

(***************************************************************************)
(* Properties of the polling fallback and of the connection flag           *)
(***************************************************************************)
\* C34: once the client has fallen back to polling, the stream and the
\* polling timer never feed the dashboard together: no event reopens the
\* stream while polling runs
C34_PollingExcludesStream ==
    [][(polling > 0 /\ rlast' \in {"focus", "online"})
         => stream' \notin {"connecting", "open"}]_vars

\* C35: at most one polling timer is active at any time
C35_OnePollingTimer == polling <= 1

\* C39: isConnected is true only while the current EventSource has fired
\* its open event and has neither failed nor been closed or replaced since
C39_FlagTruthful == isConnected => stream = "open"

\* C38: at most one EventSource of the dashboard is connecting or open at
\* any time: every path that opens a stream closes the previous one first,
\* so the only EventSource not closed is the current one
C38_OneTransport ==
    /\ live <= 1
    /\ live = 1 <=> stream \in {"connecting", "open"}

\* the stream was open when 'online' replaced it, with a reconnect pending
C38_Witness ==
    /\ rlast = "online"
    /\ opened = 1
    /\ isConnected
    /\ ~destroyed
    /\ stream = "connecting"
    /\ live = 1

(***************************************************************************)
(* Properties of reloads against the selected range and the streamed       *)
(* points                                                                  *)
(***************************************************************************)
\* C36: whenever no reload is in flight, the chart shows data loaded for
\* the selected range: a load that is drawn, was not overtaken by a range
\* selection and leaves no request behind was requested for
\* currentTimeRange hours
C36_RefreshKeepsRange ==
    [][(/\ last'.op = "load"
        /\ last'.renders = 1
        /\ ~last'.superseded
        /\ inflight' = {})
         => loadedFor' = currentTimeRange']_vars

\* C37: a streamed point that was appended leaves the window only by
\* eviction at capacity or by a range change: the response of a refresh made
\* on a visibility change removes none of the streamed points in the window
C37_RefreshKeepsStreamed ==
    [][\A r \in inflight :
          (r.from = "visibility" /\ inflight' = inflight \ {r} /\ last'.op = "load")
             => \A i \in 1..Len(appended) :
                   appended[i][1] \in Range(realTimestamps)
                      => appended[i][1] \in Range(realTimestamps')]_vars

====
